---- MODULE Spec2Model ----
(***************************************************************************)
(* Processing core and orchestrator of the crop-protection pipeline:       *)
(*   processing/ndvi_calculator.py      calculate_ndvi                     *)
(*   ai_models/health_classifier.py     classify_health and its helpers    *)
(*   ai_models/segmentation.py          segment_plots, plots_to_geojson    *)
(*   database/db_manager.py             the pipeline_runs table            *)
(*   data_ingestion/pipeline_scheduler.py  run_pipeline                    *)
(*                                                                         *)
(* A raster is modelled as the sequence of its cells (row-major): every    *)
(* operation modelled here is either cell-wise or a count/aggregate over   *)
(* all cells, so the 2-D arrangement does not matter.                      *)
(*                                                                         *)
(* A real number is modelled as an exact fraction <<n, d>> with d > 0.      *)
(* Band values are integers (the imagery source writes uint16,             *)
(* calculate_ndvi casts them to float32).  For the values used here the    *)
(* sums and differences are exact in float32, a quotient that is not a     *)
(* threshold is further from every threshold than float32 rounding can     *)
(* move it, and a quotient mathematically equal to a threshold t is        *)
(* float32(t), which a numpy array comparison with the Python float t      *)
(* finds not greater than t.                                               *)
(***************************************************************************)
EXTENDS Integers, Sequences, FiniteSets, TLC

VARIABLES
    srcBands,        \* the source GeoTIFF: sequence of [nir, red] cells; <<>> when there is none
    ndviFile,        \* the NDVI GeoTIFF: sequence of index values; <<>> when not written
    ndviResult,      \* what calculate_ndvi returned
    weather_data,    \* the weather argument of the last classify_health call
    classification,  \* what classify_health returned (or that it raised)
    overall_label,   \* result of a direct _overall_health call
    plot_class,      \* result of a direct _classify_ndvi call
    seg_call,        \* segment_plots: its min_plot_area, the file's transform, the labeled regions
    segmentation,    \* what segment_plots returned
    geojson,         \* what plots_to_geojson returned
    pipeline_runs,   \* table pipeline_runs: sequence of rows, the row id is the index
    tables,          \* the other tables of the store: the rows inserted, in order
    runs             \* the run_pipeline calls: position and locals of each

coreVars == <<srcBands, ndviFile, ndviResult, weather_data, classification,
              overall_label, plot_class>>
segVars == <<seg_call, segmentation, geojson>>
pipeVars == <<pipeline_runs, tables, runs>>

vars == <<srcBands, ndviFile, ndviResult, weather_data, classification,
          overall_label, plot_class, seg_call, segmentation, geojson,
          pipeline_runs, tables, runs>>

----------------------------------------------------------------------------
(* Bounds *)

MaxPixels == 2          \* cells of a source image
MaxFilePixels == 20     \* cells of a stand-alone NDVI file without no-data
MaxNoData == 1          \* no-data cells of a stand-alone NDVI file
MaxMixedPixels == 3     \* valid cells of a stand-alone NDVI file with no-data

MaxSegPixels == 4       \* cells of an NDVI file given to segment_plots
MaxMinArea == 3         \* largest min_plot_area besides the default

MaxRuns == 2            \* run_pipeline calls

(* Band values offered to calculate_ndvi: zero, the 8000/2000 scenario and a
   negative value (a signed GeoTIFF), so that NIR + Red is positive, zero
   (with zero and with nonzero bands) and negative and the quotient falls
   inside and outside [-1, 1]; and two cells whose index is exactly 0.3
   and 0.1. *)
BandValues == {-2000, 0, 2000, 8000}
BoundaryPairs == {[nir |-> 13, red |-> 7], [nir |-> 11, red |-> 9]}

----------------------------------------------------------------------------
(* Exact fractions *)

Abs(x) == IF x < 0 THEN -x ELSE x

RECURSIVE GCD(_, _)
GCD(a, b) == IF b = 0 THEN a ELSE GCD(b, a % b)

\* n/d for d # 0, in lowest terms with a positive denominator
Frac(n, d) ==
    LET g == GCD(Abs(n), Abs(d))
        s == IF d < 0 THEN -1 ELSE 1
    IN  <<(s * n) \div g, (s * d) \div g>>

RatLt(a, b) == a[1] * b[2] < b[1] * a[2]
RatLe(a, b) == a[1] * b[2] <= b[1] * a[2]
RatGt(a, b) == RatLt(b, a)
RatGe(a, b) == RatLe(b, a)
RatEq(a, b) == a[1] * b[2] = b[1] * a[2]
RatAdd(a, b) == Frac(a[1] * b[2] + b[1] * a[2], a[2] * b[2])

Zero == <<0, 1>>
One == <<1, 1>>
MinusOne == <<-1, 1>>

RECURSIVE RatSum(_)
\* the sum of the two halves (numpy sums pairwise too; the sum is exact here)
RatSum(s) ==
    IF s = <<>> THEN Zero
    ELSE IF Len(s) = 1 THEN RatAdd(s[1], Zero)
    ELSE LET h == Len(s) \div 2
         IN  RatAdd(RatSum(SubSeq(s, 1, h)), RatSum(SubSeq(s, h + 1, Len(s))))

RECURSIVE RatMin(_)
RatMin(s) ==
    IF Len(s) = 1 THEN s[1]
    ELSE LET h == Len(s) \div 2
             a == RatMin(SubSeq(s, 1, h))
             b == RatMin(SubSeq(s, h + 1, Len(s)))
         IN  IF RatLt(b, a) THEN b ELSE a

RECURSIVE RatMax(_)
RatMax(s) ==
    IF Len(s) = 1 THEN s[1]
    ELSE LET h == Len(s) \div 2
             a == RatMax(SubSeq(s, 1, h))
             b == RatMax(SubSeq(s, h + 1, Len(s)))
         IN  IF RatGt(b, a) THEN b ELSE a

\* mask.sum(): the number of TRUE cells of a boolean array
MaskSum(mask) == Cardinality({i \in DOMAIN mask : mask[i]})

----------------------------------------------------------------------------
(* config.py *)

NDVI_HEALTHY == <<6, 10>>
NDVI_MODERATE == <<3, 10>>
NDVI_SEVERE == <<1, 10>>

\* the no-data marker of the NDVI GeoTIFF
NODATA == <<-9999, 1>>

----------------------------------------------------------------------------
(* processing/ndvi_calculator.py: calculate_ndvi *)

\* faulty variant: only the upper bound is clipped
ClipUpperOnly(v) == IF RatGt(v, One) THEN One ELSE v

\* ndvi.clip(-1.0, 1.0)
Clip(v) ==
    IF RatLt(v, MinusOne) THEN MinusOne
    ELSE IF RatGt(v, One) THEN One
    ELSE v

\* np.where(denominator > 0, (nir - red) / denominator, 0.0) for one cell.
\* A zero denominator only produces a numpy warning in the discarded branch.
WhereCell(nir, red) ==
    LET denominator == nir + red
    IN  IF denominator > 0 THEN Frac(nir - red, denominator) ELSE Zero

\* faulty variant: a cell with a zero denominator is written as no-data
NdviCellSentinel(nir, red) ==
    IF nir + red = 0 THEN NODATA ELSE Clip(WhereCell(nir, red))

NdviCell(nir, red) == Clip(WhereCell(nir, red))

NdviRaster(bands) == [i \in 1..Len(bands) |-> NdviCell(bands[i].nir, bands[i].red)]

\* the four class masks of the statistics
StatHealthy(v) == RatGt(v, NDVI_HEALTHY)
\* faulty variant: the upper boundary is excluded
StatModerateOpen(v) == RatGt(v, NDVI_MODERATE) /\ RatLt(v, NDVI_HEALTHY)
StatModerate(v) == RatGt(v, NDVI_MODERATE) /\ RatLe(v, NDVI_HEALTHY)
StatSevere(v) == RatGt(v, NDVI_SEVERE) /\ RatLe(v, NDVI_MODERATE)
StatCritical(v) == RatLe(v, NDVI_SEVERE)

\* ndvi[ndvi > -9999]
ValidMask(v) == RatGt(v, NODATA)
Valid(ndvi) == SelectSeq(ndvi, ValidMask)

\* float(mask.mean() * 100)
MeanPct(mask) == Frac(MaskSum(mask) * 100, Len(mask))

\* The statistics dict.  std, median, p25 and p75 are left out: no operation
\* modelled here reads them.
Statistics(ndvi) ==
    LET valid == Valid(ndvi)
    IN  [min |-> RatMin(valid),
         max |-> RatMax(valid),
         mean |-> LET t == RatSum(valid) IN Frac(t[1], t[2] * Len(valid)),
         healthy_pct |-> MeanPct([i \in DOMAIN valid |-> StatHealthy(valid[i])]),
         moderate_stress_pct |-> MeanPct([i \in DOMAIN valid |-> StatModerate(valid[i])]),
         severe_stress_pct |-> MeanPct([i \in DOMAIN valid |-> StatSevere(valid[i])]),
         critical_pct |-> MeanPct([i \in DOMAIN valid |-> StatCritical(valid[i])]),
         total_pixels |-> Len(valid)]

NoResult == [status |-> "none"]

\* an exception leaving a call
Raised(e) == [status |-> "raised", error |-> e]

\* calculate_ndvi(input_path): reads the source bands, writes the NDVI file,
\* returns the statistics.  The file is written before the statistics are
\* computed; np.min of an empty `valid` raises ValueError.
CalculateNdvi ==
    /\ srcBands # <<>>
    /\ ndviResult = NoResult
    /\ ndviFile' = NdviRaster(srcBands)
    /\ ndviResult' = IF Len(Valid(ndviFile')) = 0 THEN Raised("ValueError")
                     ELSE [status |-> "returned", statistics |-> Statistics(ndviFile')]
    /\ UNCHANGED <<srcBands, weather_data, classification, overall_label, plot_class>>
    /\ UNCHANGED <<segVars, pipeVars>>

----------------------------------------------------------------------------
(* ai_models/health_classifier.py *)

\* A Python dict is the set of its <<key, value>> pairs; d.get(k, default):
Dget(d, k, default) ==
    IF \E p \in d : p[1] = k THEN (CHOOSE p \in d : p[1] = k)[2] ELSE default

\* An optional argument is <<>> (None) or <<value>>.
None == <<>>
Some(v) == <<v>>

\* the four class masks of classify_health
HealthyMask(v) == RatGt(v, NDVI_HEALTHY)
\* faulty variant: the lower boundary is included
ModerateMaskClosed(v) == RatGe(v, NDVI_MODERATE) /\ RatLe(v, NDVI_HEALTHY)
ModerateMask(v) == RatGt(v, NDVI_MODERATE) /\ RatLe(v, NDVI_HEALTHY)
SevereMask(v) == RatGt(v, NDVI_SEVERE) /\ RatLe(v, NDVI_MODERATE)
CriticalMask(v) == RatLe(v, NDVI_SEVERE)

\* faulty variant: truncation instead of rounding
Round1Floor(count, total) == (count * 1000) \div total

\* round(count / total * 100, 1), in tenths of a percent: the nearest tenth,
\* a tie going to the even tenth (numpy and Python both round half to even).
\* Percentages of the classification are kept in tenths throughout.
Round1(count, total) ==
    LET q == (count * 1000) \div total
        r == (count * 1000) % total
    IN  IF 2 * r < total THEN q
        ELSE IF 2 * r > total THEN q + 1
        ELSE IF q % 2 = 0 THEN q ELSE q + 1

\* round(...) if total > 0 else 0
Pct(count, total) == IF total > 0 THEN Round1(count, total) ELSE 0

\* faulty variant: the boundaries are included
OverallHealthGe(healthy, moderate, severe, critical, total) ==
    IF total = 0 THEN "No Data"
    ELSE IF 10 * healthy >= 7 * total THEN "Good"
    ELSE IF 10 * healthy >= 5 * total THEN "Fair"
    ELSE IF 10 * healthy >= 3 * total THEN "Poor"
    ELSE "Critical"

_overall_health(healthy, moderate, severe, critical, total) ==
    IF total = 0 THEN "No Data"
    ELSE IF 10 * healthy > 7 * total THEN "Good"      \* healthy / total > 0.7
    ELSE IF 10 * healthy > 5 * total THEN "Fair"      \* > 0.5
    ELSE IF 10 * healthy > 3 * total THEN "Poor"      \* > 0.3
    ELSE "Critical"

\* faulty variant: every threshold is included
WeatherAlertsInclusive(pcts, weather) ==
    LET soil == Dget(weather, "soil", {})
        current == Dget(weather, "current", {})
        soil_moisture == Dget(soil, "moisture", 50)
        humidity == Dget(current, "humidity_pct", 50)
        temp == Dget(current, "temperature_c", 20)
        drought == IF soil_moisture <= 20 /\ pcts.severe_stress + pcts.critical >= 300
                   THEN <<[type |-> "CRITICAL", title |-> "Drought Stress Detected"]>>
                   ELSE <<>>
        disease == IF humidity >= 80 /\ temp >= 18 /\ pcts.moderate_stress >= 200
                   THEN <<[type |-> "WARNING", title |-> "Disease Risk Elevated"]>>
                   ELSE <<>>
        frost == IF temp <= 2 /\ pcts.healthy >= 300
                 THEN <<[type |-> "WARNING", title |-> "Frost Damage Risk"]>>
                 ELSE <<>>
    IN  drought \o disease \o frost

\* faulty variant: the frost threshold is 20 instead of 2
WeatherAlertsFrostBelow20(pcts, weather) ==
    LET soil == Dget(weather, "soil", {})
        current == Dget(weather, "current", {})
        soil_moisture == Dget(soil, "moisture", 50)
        humidity == Dget(current, "humidity_pct", 50)
        temp == Dget(current, "temperature_c", 20)
        drought == IF soil_moisture < 20 /\ pcts.severe_stress + pcts.critical > 300
                   THEN <<[type |-> "CRITICAL", title |-> "Drought Stress Detected"]>>
                   ELSE <<>>
        disease == IF humidity > 80 /\ temp > 18 /\ pcts.moderate_stress > 200
                   THEN <<[type |-> "WARNING", title |-> "Disease Risk Elevated"]>>
                   ELSE <<>>
        frost == IF temp < 20 /\ pcts.healthy > 300
                 THEN <<[type |-> "WARNING", title |-> "Frost Damage Risk"]>>
                 ELSE <<>>
    IN  drought \o disease \o frost

\* Alerts and recommendations are modelled by their type/priority and title;
\* the message text is a formatting of the same numbers.
_weather_correlated_alerts(pcts, weather) ==
    LET soil == Dget(weather, "soil", {})
        current == Dget(weather, "current", {})
        soil_moisture == Dget(soil, "moisture", 50)        \* 0.5, in hundredths
        humidity == Dget(current, "humidity_pct", 50)
        temp == Dget(current, "temperature_c", 20)
        drought == IF soil_moisture < 20 /\ pcts.severe_stress + pcts.critical > 300
                   THEN <<[type |-> "CRITICAL", title |-> "Drought Stress Detected"]>>
                   ELSE <<>>
        disease == IF humidity > 80 /\ temp > 18 /\ pcts.moderate_stress > 200
                   THEN <<[type |-> "WARNING", title |-> "Disease Risk Elevated"]>>
                   ELSE <<>>
        frost == IF temp < 2 /\ pcts.healthy > 300
                 THEN <<[type |-> "WARNING", title |-> "Frost Damage Risk"]>>
                 ELSE <<>>
    IN  drought \o disease \o frost

\* faulty variant: the fallback recommendation is missing
RecommendationsNoFallback(pcts) ==
    (IF pcts.critical > 150
     THEN <<[priority |-> "HIGH", action |-> "Field Inspection"]>> ELSE <<>>)
    \o (IF pcts.severe_stress > 250
        THEN <<[priority |-> "HIGH", action |-> "Soil & Nutrient Test"]>> ELSE <<>>)
    \o (IF pcts.moderate_stress > 300
        THEN <<[priority |-> "MEDIUM", action |-> "Targeted Treatment"]>> ELSE <<>>)
    \o (IF pcts.healthy > 700
        THEN <<[priority |-> "LOW", action |-> "Routine Monitoring"]>> ELSE <<>>)

\* faulty variant: an elif chain: only the first condition that holds fires
RecommendationsElif(pcts) ==
    IF pcts.critical > 150
    THEN <<[priority |-> "HIGH", action |-> "Field Inspection"]>>
    ELSE IF pcts.severe_stress > 250
    THEN <<[priority |-> "HIGH", action |-> "Soil & Nutrient Test"]>>
    ELSE IF pcts.moderate_stress > 300
    THEN <<[priority |-> "MEDIUM", action |-> "Targeted Treatment"]>>
    ELSE IF pcts.healthy > 700
    THEN <<[priority |-> "LOW", action |-> "Routine Monitoring"]>>
    ELSE <<[priority |-> "MEDIUM", action |-> "Schedule Next Scan"]>>

_generate_recommendations(pcts) ==
    LET r1 == IF pcts.critical > 150
              THEN <<[priority |-> "HIGH", action |-> "Field Inspection"]>> ELSE <<>>
        r2 == IF pcts.severe_stress > 250
              THEN <<[priority |-> "HIGH", action |-> "Soil & Nutrient Test"]>> ELSE <<>>
        r3 == IF pcts.moderate_stress > 300
              THEN <<[priority |-> "MEDIUM", action |-> "Targeted Treatment"]>> ELSE <<>>
        r4 == IF pcts.healthy > 700
              THEN <<[priority |-> "LOW", action |-> "Routine Monitoring"]>> ELSE <<>>
        recs == r1 \o r2 \o r3 \o r4
    IN  IF recs = <<>>
        THEN <<[priority |-> "MEDIUM", action |-> "Schedule Next Scan"]>>
        ELSE recs

\* `if weather_data:` is false for None and for an empty dict
Truthy(w) == w # None /\ w[1] # {}

\* faulty variant: without weather a dry soil is assumed
AlertsAssumeDry(pcts, w) ==
    _weather_correlated_alerts(pcts, IF Truthy(w) THEN w[1]
                                     ELSE {<<"soil", {<<"moisture", 10>>}>>})

\* "alerts": [] at construction, replaced by the weather alerts
\* `if weather_data:`
AlertsFor(pcts, w) ==
    IF Truthy(w) THEN _weather_correlated_alerts(pcts, w[1]) ELSE <<>>

\* The "overall_ndvi" entry: np.mean and np.std of an empty array give nan
\* with a warning, np.min of an empty array raises ValueError.
OverallNdviRaises(valid) == Len(valid) = 0

classify_health(ndvi, w) ==
    LET valid == Valid(ndvi)
        healthy == MaskSum([i \in DOMAIN valid |-> HealthyMask(valid[i])])
        moderate == MaskSum([i \in DOMAIN valid |-> ModerateMask(valid[i])])
        severe == MaskSum([i \in DOMAIN valid |-> SevereMask(valid[i])])
        critical == MaskSum([i \in DOMAIN valid |-> CriticalMask(valid[i])])
        total == Len(valid)
        pcts == [healthy |-> Pct(healthy, total),
                 moderate_stress |-> Pct(moderate, total),
                 severe_stress |-> Pct(severe, total),
                 critical |-> Pct(critical, total)]
    IN  IF OverallNdviRaises(valid) THEN Raised("ValueError")
        ELSE [status |-> "returned",
              pixel_counts |-> [healthy |-> healthy, moderate_stress |-> moderate,
                                severe_stress |-> severe, critical |-> critical,
                                total |-> total],
              percentages |-> pcts,
              overall_ndvi |-> [mean |-> LET t == RatSum(valid)
                                         IN Frac(t[1], t[2] * total),
                                min |-> RatMin(valid),
                                max |-> RatMax(valid)],
              overall_health |-> _overall_health(healthy, moderate, severe, critical, total),
              alerts |-> AlertsFor(pcts, w),
              recommendations |-> _generate_recommendations(pcts)]

\* Weather arguments offered to classify_health: none, an empty dict, and
\* dicts with and without each section and field (moisture in hundredths).
WeatherInputs ==
    {None, Some({}),
     Some({<<"soil", {<<"moisture", 10>>}>>}),
     Some({<<"soil", {<<"moisture", 10>>}>>,
           <<"current", {<<"humidity_pct", 90>>, <<"temperature_c", 19>>}>>}),
     Some({<<"soil", {<<"moisture", 20>>}>>,
           <<"current", {<<"humidity_pct", 80>>, <<"temperature_c", 18>>}>>}),
     Some({<<"current", {<<"humidity_pct", 90>>, <<"temperature_c", 1>>}>>}),
     Some({<<"soil", {}>>, <<"current", {<<"temperature_c", 2>>}>>}),
     Some({<<"current", {<<"humidity_pct", 90>>}>>})}

\* classify_health(ndvi_path, weather_data) on the NDVI file on disk.
\* classify_health, _overall_health and _classify_ndvi are pure and share no
\* state: a behaviour calls one of them on the file, once.
ClassifyHealth ==
    /\ ndviFile # <<>>
    /\ classification = NoResult
    /\ overall_label = NoResult
    /\ plot_class = NoResult
    /\ \E w \in WeatherInputs :
         /\ weather_data' = w
         /\ classification' = classify_health(ndviFile, w)
    /\ UNCHANGED <<srcBands, ndviFile, ndviResult, overall_label, plot_class>>
    /\ UNCHANGED <<segVars, pipeVars>>

\* _overall_health called on the class counts of the NDVI file
OverallHealth ==
    /\ ndviFile # <<>>
    /\ classification = NoResult
    /\ overall_label = NoResult
    /\ plot_class = NoResult
    /\ LET valid == Valid(ndviFile)
           healthy == MaskSum([i \in DOMAIN valid |-> HealthyMask(valid[i])])
           moderate == MaskSum([i \in DOMAIN valid |-> ModerateMask(valid[i])])
           severe == MaskSum([i \in DOMAIN valid |-> SevereMask(valid[i])])
           critical == MaskSum([i \in DOMAIN valid |-> CriticalMask(valid[i])])
           total == Len(valid)
       IN  overall_label' =
             [status |-> "returned", healthy |-> healthy, total |-> total,
              label |-> _overall_health(healthy, moderate, severe, critical, total)]
    /\ UNCHANGED <<srcBands, ndviFile, ndviResult, weather_data, classification, plot_class>>
    /\ UNCHANGED <<segVars, pipeVars>>

----------------------------------------------------------------------------
(* ai_models/segmentation.py: the per-plot classifier *)

\* faulty variant: the Healthy boundary is included
ClassifyNdviGe(ndvi_value) ==
    IF RatGe(ndvi_value, NDVI_HEALTHY) THEN [class |-> "Healthy", color |-> "#2ecc71"]
    ELSE IF RatGt(ndvi_value, NDVI_MODERATE) THEN [class |-> "Moderate Stress", color |-> "#f39c12"]
    ELSE IF RatGt(ndvi_value, NDVI_SEVERE) THEN [class |-> "Severe Stress", color |-> "#e74c3c"]
    ELSE [class |-> "Critical", color |-> "#8e44ad"]

_classify_ndvi(ndvi_value) ==
    IF RatGt(ndvi_value, NDVI_HEALTHY) THEN [class |-> "Healthy", color |-> "#2ecc71"]
    ELSE IF RatGt(ndvi_value, NDVI_MODERATE) THEN [class |-> "Moderate Stress", color |-> "#f39c12"]
    ELSE IF RatGt(ndvi_value, NDVI_SEVERE) THEN [class |-> "Severe Stress", color |-> "#e74c3c"]
    ELSE [class |-> "Critical", color |-> "#8e44ad"]

\* _classify_ndvi called on the value of one valid cell of the NDVI file (the
\* mean intensity of a one-cell region)
ClassifyNdvi ==
    /\ ndviFile # <<>>
    /\ classification = NoResult
    /\ overall_label = NoResult
    /\ plot_class = NoResult
    /\ \E v \in {ndviFile[i] : i \in 1..Len(ndviFile)} :
         /\ ValidMask(v)
         /\ plot_class' = [status |-> "returned", value |-> v,
                           health |-> _classify_ndvi(v)]
    /\ UNCHANGED <<srcBands, ndviFile, ndviResult, weather_data, classification, overall_label>>
    /\ UNCHANGED <<segVars, pipeVars>>

----------------------------------------------------------------------------
(* ai_models/segmentation.py: segment_plots and plots_to_geojson.

   The raster is read as a single row of cells, so a connected component is
   a run of consecutive cells and its bounding box is rows [0, 1) by columns
   [first, last + 1).  The morphological cleaning (skimage opening and
   closing with disk(3)) is library code: the cleaned mask is any mask over
   the raster, except that a raster without a vegetation cell cleans to the
   empty mask.  The shape descriptors of a plot (centroid, eccentricity,
   solidity) and the timestamp, source_file, crs and mask shape of the result
   are left out: no operation modelled here reads them. *)

\* veg_mask = (ndvi > config.NDVI_SEVERE)
VegMask(ndvi) == [i \in 1..Len(ndvi) |-> RatGt(ndvi[i], NDVI_SEVERE)]

\* closing(opening(veg_mask, selem), selem): the masks it may give
CleanedMasks(veg_mask) ==
    IF MaskSum(veg_mask) = 0 THEN {[i \in DOMAIN veg_mask |-> FALSE]}
    ELSE [DOMAIN veg_mask -> BOOLEAN]

\* ndimage.label(cleaned): the k-th run of the row, in scan order, is labeled
\* k; the background is 0
Label(cleaned) ==
    [i \in DOMAIN cleaned |->
        IF cleaned[i]
        THEN Cardinality({j \in 1..i : cleaned[j] /\ (j = 1 \/ ~cleaned[j - 1])})
        ELSE 0]

\* n_features
NFeatures(labeled) ==
    Cardinality({labeled[i] : i \in DOMAIN labeled} \ {0})

\* regionprops(labeled, intensity_image=ndvi): one region per label, in
\* label order
Regionprops(labeled, ndvi) ==
    [k \in 1..NFeatures(labeled) |->
        LET cells == {i \in DOMAIN labeled : labeled[i] = k}
            first == CHOOSE i \in cells : \A j \in cells : i <= j
            last == CHOOSE i \in cells : \A j \in cells : i >= j
            values == SubSeq(ndvi, first, last)
        IN  [label |-> k,
             area |-> Cardinality(cells),
             bbox |-> [minr |-> 0, minc |-> first - 1, maxr |-> 1, maxc |-> last],
             mean_intensity |-> LET t == RatSum(values)
                                IN Frac(t[1], t[2] * Len(values)),
             min_intensity |-> RatMin(values),
             max_intensity |-> RatMax(values)]]

\* rasterio.transform.xy(transform, row, col, offset="center") for an
\* unrotated transform with pixel size (a, e) and origin (c, f):
\* (c + (col + 0.5) a, f + (row + 0.5) e), kept in halves of a map unit
Xy(transform, row, col) ==
    <<2 * transform.c + (2 * col + 1) * transform.a,
      2 * transform.f + (2 * row + 1) * transform.e>>

\* faulty variant: a region whose area equals min_plot_area is dropped too
KeepRegionAbove(region, min_plot_area) == region.area > min_plot_area

\* `if region.area < min_plot_area: continue`
KeepRegion(region, min_plot_area) == ~(region.area < min_plot_area)

\* the plot dict built for one region
Plot(region, transform) ==
    LET geo_min == Xy(transform, region.bbox.maxr, region.bbox.minc)
        geo_max == Xy(transform, region.bbox.minr, region.bbox.maxc)
        health_class == _classify_ndvi(region.mean_intensity)
    IN  [id |-> region.label,
         area_pixels |-> region.area,
         bbox_geo |-> [south |-> geo_min[2], west |-> geo_min[1],
                       north |-> geo_max[2], east |-> geo_max[1]],
         ndvi_stats |-> [mean |-> region.mean_intensity,
                         min |-> region.min_intensity,
                         max |-> region.max_intensity],
         health_class |-> health_class.class,
         health_color |-> health_class.color]

\* classes.count(c)
ClassCount(plots, c) == Cardinality({i \in 1..Len(plots) : plots[i].health_class = c})

\* faulty variant: the empty list is summarised like any other (its counts
\* are all 0; its mean, a nan in the code, is left out)
SummarizeNoGuard(plots) ==
    [total_plots |-> Len(plots),
     healthy_count |-> ClassCount(plots, "Healthy"),
     moderate_stress_count |-> ClassCount(plots, "Moderate Stress"),
     severe_stress_count |-> ClassCount(plots, "Severe Stress"),
     critical_count |-> ClassCount(plots, "Critical")]

_summarize_plots(plots) ==
    IF plots = <<>> THEN [total |-> 0]
    ELSE LET t == RatSum([i \in 1..Len(plots) |-> plots[i].ndvi_stats.mean])
             mean == Frac(t[1], t[2] * Len(plots))
         IN  [total_plots |-> Len(plots),
              healthy_count |-> ClassCount(plots, "Healthy"),
              moderate_stress_count |-> ClassCount(plots, "Moderate Stress"),
              severe_stress_count |-> ClassCount(plots, "Severe Stress"),
              critical_count |-> ClassCount(plots, "Critical"),
              overall_mean_ndvi |-> mean,
              overall_health |-> _classify_ndvi(mean).class]

\* segment_plots from the regions on: the loop over the regions and the
\* result dict
segment_plots(regions, transform, min_plot_area) ==
    LET Keep(region) == KeepRegion(region, min_plot_area)
        kept == SelectSeq(regions, Keep)
        plots == [i \in 1..Len(kept) |-> Plot(kept[i], transform)]
    IN  [status |-> "returned",
         total_plots |-> Len(plots),
         plots |-> plots,
         summary |-> _summarize_plots(plots)]

\* min_plot_area: int = 100
DefaultMinPlotArea == 100

\* the min_plot_area arguments offered: small ones, and the default
MinPlotAreas == (0..MaxMinArea) \cup {DefaultMinPlotArea}

\* src.transform of the NDVI file: a north-up transform (pixel height
\* negative, as rasterio's from_bounds builds it) and the identity rasterio
\* gives a file without georeferencing
Transforms == {[a |-> 2, c |-> 10, e |-> -2, f |-> 20],
               [a |-> 1, c |-> 0, e |-> 1, f |-> 0]}

\* segment_plots(ndvi_path, min_plot_area) on the NDVI file on disk
SegmentPlots ==
    /\ ndviFile # <<>>
    /\ segmentation = NoResult
    /\ \E min_plot_area \in MinPlotAreas, transform \in Transforms,
          cleaned \in CleanedMasks(VegMask(ndviFile)) :
         LET regions == Regionprops(Label(cleaned), ndviFile)
         IN  /\ seg_call' = [status |-> "called", min_plot_area |-> min_plot_area,
                             transform |-> transform, regions |-> regions]
             /\ segmentation' = segment_plots(regions, transform, min_plot_area)
    /\ UNCHANGED <<coreVars, geojson, pipeVars>>

\* the ring of a plot's bounding box
Ring(bbox) ==
    <<<<bbox.west, bbox.south>>, <<bbox.east, bbox.south>>,
      <<bbox.east, bbox.north>>, <<bbox.west, bbox.north>>,
      <<bbox.west, bbox.south>>>>

\* faulty variant: the ring is not closed
FeatureOpenRing(plot) ==
    [type |-> "Feature",
     geometry |-> [type |-> "Polygon",
                   coordinates |-> <<SubSeq(Ring(plot.bbox_geo), 1, 4)>>],
     properties |-> [plot_id |-> plot.id,
                     health_class |-> plot.health_class,
                     health_color |-> plot.health_color,
                     mean_ndvi |-> plot.ndvi_stats.mean,
                     area_pixels |-> plot.area_pixels]]

\* the feature dict built for one plot
Feature(plot) ==
    [type |-> "Feature",
     geometry |-> [type |-> "Polygon", coordinates |-> <<Ring(plot.bbox_geo)>>],
     properties |-> [plot_id |-> plot.id,
                     health_class |-> plot.health_class,
                     health_color |-> plot.health_color,
                     mean_ndvi |-> plot.ndvi_stats.mean,
                     area_pixels |-> plot.area_pixels]]

\* faulty variant: features.insert(0, feature) instead of append
PlotsToGeojsonPrepend(segmentation_result) ==
    LET plots == segmentation_result.plots
    IN  [type |-> "FeatureCollection",
         features |-> [i \in 1..Len(plots) |-> Feature(plots[Len(plots) + 1 - i])]]

plots_to_geojson(segmentation_result) ==
    LET plots == segmentation_result.plots
    IN  [type |-> "FeatureCollection",
         features |-> [i \in 1..Len(plots) |-> Feature(plots[i])]]

\* plots_to_geojson(segmentation) on the result of segment_plots; it builds
\* new lists and assigns to nothing it was given
PlotsToGeojson ==
    /\ segmentation.status = "returned"
    /\ geojson = NoResult
    /\ geojson' = [status |-> "returned", value |-> plots_to_geojson(segmentation)]
    /\ UNCHANGED <<coreVars, seg_call, segmentation, pipeVars>>

----------------------------------------------------------------------------
(* database/db_manager.py (table pipeline_runs) and
   data_ingestion/pipeline_scheduler.py (run_pipeline).

   Every DatabaseManager method opens its own connection and runs one
   statement in one transaction, so each call is one atomic step on the
   store, and calls of concurrent run_pipeline invocations interleave.  A row
   id is the row's position in its table (AUTOINCREMENT, rows are never
   deleted).  Timestamps are left out and a processing time is the one value
   "elapsed".  What a step computes is named by the id of the run that
   computed it.  A step of run_pipeline either completes or raises an
   exception whose str() is one of Messages. *)

Procs == 1..MaxRuns

\* str(e) of the exceptions a step may raise: an exception built without a
\* message has the empty string
Messages == {"", "read error"}

\* INSERT INTO pipeline_runs (start_time, status) VALUES (?, 'running');
\* the new row's id is the new length
start_pipeline_run(rows) ==
    Append(rows, [status |-> "running", imagery_id |-> None,
                  processing_time_s |-> None,
                  steps_completed |-> None, error_message |-> None])

\* faulty variant: the UPDATE has no WHERE clause
CompleteEveryRun(rows, run_id, imagery_id, steps, error) ==
    [id \in DOMAIN rows |->
        [status |-> IF error # None /\ error[1] # "" THEN "failed" ELSE "completed",
         imagery_id |-> imagery_id,
         processing_time_s |-> Some("elapsed"),
         steps_completed |-> Some(steps),
         error_message |-> error]]

\* status = "failed" if error else "completed"; UPDATE pipeline_runs SET ...
\* WHERE id = run_id.  error is None or Some(message), imagery_id None or
\* Some(id).
complete_pipeline_run(rows, run_id, imagery_id, steps, error) ==
    [id \in DOMAIN rows |->
        IF id = run_id
        THEN [status |-> IF error # None /\ error[1] # "" THEN "failed" ELSE "completed",
              imagery_id |-> imagery_id,
              processing_time_s |-> Some("elapsed"),
              steps_completed |-> Some(steps),
              error_message |-> error]
        ELSE rows[id]]

\* Number of rows of the table with the given status
CountStatus(rows, s) == Cardinality({id \in DOMAIN rows : rows[id].status = s})

\* total = COUNT(*), completed = COUNT(... WHERE status='completed'),
\* "failed": total - completed.  avg_processing_time_s and success_rate are
\* left out.
get_pipeline_stats(rows) ==
    [total_runs |-> Len(rows),
     completed  |-> CountStatus(rows, "completed"),
     failed     |-> Len(rows) - CountStatus(rows, "completed")]

\* faulty variant: the new row takes id 1 and the rows already there move up
InsertFirst(rows, row) == <<row>> \o rows

\* insert_imagery, insert_weather, insert_ndvi_result and
\* insert_health_assessment: INSERT INTO <table> ... ; return cur.lastrowid
Insert(rows, row) == Append(rows, row)

\* the locals of a run_pipeline call that has not started, nothing returned
NoPayload == [status |-> "none"]

IdleRun == [pc |-> "idle", run_id |-> 0, img_id |-> 0, weather |-> 0,
            ndvi_result |-> 0, ndvi_id |-> 0, classification |-> 0,
            segmentation |-> 0, e |-> "", trace |-> <<>>, updates |-> 0,
            result |-> NoPayload]

\* imagery, weather_data, ndvi_results and health_assessments are the
\* tables, rasters the index rasters written to PROCESSED_DIR (named by the
\* run that wrote them), plots_geojson the content of the one file
\* plots.geojson: 0 absent, -1 cut off by a failed dump, else the run that
\* wrote it
EmptyTables == [imagery |-> <<>>, weather_data |-> <<>>, ndvi_results |-> <<>>,
                health_assessments |-> <<>>, rasters |-> {}, plots_geojson |-> 0]

\* faulty variant: the failure payload reports what was computed before the
\* failure
FailedPayloadWithPartial(p) ==
    [status |-> "failed", error |-> runs[p].e, run_id |-> runs[p].run_id,
     ndvi_mean |-> runs[p].ndvi_result]

\* return {"status": "failed", "error": str(e), "run_id": run_id}
FailedPayload(p) ==
    [status |-> "failed", error |-> runs[p].e, run_id |-> runs[p].run_id]

\* return {"status": "completed", "run_id": run_id, "processing_time_s": ...,
\* "ndvi_mean": ndvi_result["statistics"]["mean"],
\* "overall_health": classification["overall_health"],
\* "plots_found": segmentation["total_plots"],
\* "alerts": classification.get("alerts", [])}
CompletedPayload(p) ==
    [status |-> "completed", run_id |-> runs[p].run_id,
     processing_time_s |-> "elapsed",
     ndvi_mean |-> runs[p].ndvi_result,
     overall_health |-> runs[p].classification,
     plots_found |-> runs[p].segmentation,
     alerts |-> runs[p].classification]

\* the call ended by an exception: the caller gets no payload
RaisedToCaller == [status |-> "raised"]

\* run_pipeline is left, by a return or by an exception: its locals are
\* gone, what remains is what the caller gets, and the count of the updates
\* the call made to its run row
Leave(p, result) ==
    [runs EXCEPT ![p] = [IdleRun EXCEPT !.pc = "done", !.result = result,
                                        !.run_id = runs[p].run_id,
                                        !.updates = runs[p].updates]]

\* an exception raised inside the try block: control goes to the handler,
\* which reads run_id and e and none of the other locals
Raise(p, m) ==
    [runs EXCEPT ![p] = [IdleRun EXCEPT !.pc = "except", !.e = m,
                                        !.run_id = runs[p].run_id,
                                        !.updates = runs[p].updates]]

\* classify_health(ndvi_result["output_file"], weather): the local weather
\* of this call
ClassifierWeather(p) == runs[p].weather

\* db = DatabaseManager(); run_id = db.start_pipeline_run().  The call is
\* outside the try block: an sqlite3 error here leaves run_pipeline.
StartPipelineRun(p) ==
    /\ runs[p].pc = "idle"
    /\ \A q \in Procs : q < p => runs[q].pc # "idle"    \* calls are numbered as they start
    /\ \/ /\ pipeline_runs' = start_pipeline_run(pipeline_runs)
          /\ runs' = [runs EXCEPT ![p].pc = "ingest",
                                  ![p].run_id = Len(pipeline_runs')]
       \/ /\ runs' = Leave(p, RaisedToCaller)
          /\ UNCHANGED pipeline_runs
    /\ UNCHANGED <<coreVars, segVars, tables>>

\* Step 1: metadata = fetch_sentinel_imagery() (or the upload's metadata);
\* img_id = db.insert_imagery(metadata)
Ingest(p) ==
    /\ runs[p].pc = "ingest"
    /\ \/ /\ tables' = [tables EXCEPT !.imagery = Insert(@, [source |-> "synthetic"])]
          /\ runs' = [runs EXCEPT ![p].pc = "weather",
                                  ![p].img_id = Len(tables'.imagery),
                                  ![p].trace = Append(@, "imagery")]
       \/ /\ \E m \in Messages : runs' = Raise(p, m)
          /\ UNCHANGED tables
    /\ UNCHANGED <<coreVars, segVars, pipeline_runs>>

\* Step 2: weather = fetch_weather(); db.insert_weather(weather)
FetchWeather(p) ==
    /\ runs[p].pc = "weather"
    /\ \/ /\ tables' = [tables EXCEPT !.weather_data = Insert(@, [source |-> "synthetic"])]
          /\ runs' = [runs EXCEPT ![p].pc = "ndvi",
                                  ![p].weather = runs[p].run_id,
                                  ![p].trace = Append(@, "weather")]
       \/ /\ \E m \in Messages : runs' = Raise(p, m)
          /\ UNCHANGED tables
    /\ UNCHANGED <<coreVars, segVars, pipeline_runs>>

\* Step 3: ndvi_result = calculate_ndvi(...), which writes the index raster;
\* ndvi_id = db.insert_ndvi_result(img_id, ndvi_result); then ndvi_to_rgb
\* and create_rgb_composite.  Each of the three may raise, after what came
\* before it is done.
ComputeNdvi(p) ==
    /\ runs[p].pc = "ndvi"
    /\ LET calculated == [runs EXCEPT ![p].ndvi_result = runs[p].run_id,
                                      ![p].trace = Append(@, "ndvi")]
           files      == [tables EXCEPT !.rasters = @ \cup {runs[p].run_id}]
           stored     == [files EXCEPT !.ndvi_results =
                             Insert(@, [imagery_id |-> runs[p].img_id])]
           inserted   == [calculated EXCEPT ![p].ndvi_id = Len(stored.ndvi_results)]
       IN  \/ /\ tables' = stored
              /\ runs' = [inserted EXCEPT ![p].pc = "classify",
                                          ![p].trace = Append(@, "render")]
           \/ /\ \E m \in Messages : runs' = Raise(p, m)
              /\ tables' \in {stored, files, tables}
    /\ UNCHANGED <<coreVars, segVars, pipeline_runs>>

\* Step 4, first half: classification = classify_health(..., weather);
\* db.insert_health_assessment(ndvi_id, classification)
ClassifyStep(p) ==
    /\ runs[p].pc = "classify"
    /\ LET classified == [runs EXCEPT ![p].classification = ClassifierWeather(p),
                                      ![p].trace = Append(@, "classify")]
       IN  \/ /\ tables' = [tables EXCEPT !.health_assessments =
                               Insert(@, [ndvi_result_id |-> runs[p].ndvi_id])]
              /\ runs' = [classified EXCEPT ![p].pc = "segment"]
           \/ /\ \E m \in Messages : runs' = Raise(p, m)
              /\ UNCHANGED tables
    /\ UNCHANGED <<coreVars, segVars, pipeline_runs>>

\* Step 4, second half: segmentation = segment_plots(...); geojson =
\* plots_to_geojson(segmentation); the dump to the one file plots.geojson,
\* which is opened for writing (and so emptied) before the dump may raise
SegmentStep(p) ==
    /\ runs[p].pc = "segment"
    /\ LET segmented == [runs EXCEPT ![p].segmentation = runs[p].run_id,
                                     ![p].trace = Append(@, "segment")]
           converted == [segmented EXCEPT ![p].trace = Append(@, "geojson")]
       IN  \/ /\ tables' = [tables EXCEPT !.plots_geojson = runs[p].run_id]
              /\ runs' = [converted EXCEPT ![p].pc = "complete",
                                           ![p].trace = Append(@, "persist")]
           \/ /\ \E m \in Messages : runs' = Raise(p, m)
              /\ tables' \in {[tables EXCEPT !.plots_geojson = -1], tables}
    /\ UNCHANGED <<coreVars, segVars, pipeline_runs>>

\* db.complete_pipeline_run(run_id, imagery_id=img_id, processing_time=...,
\* steps="ingest,weather,ndvi,classify,segment"), still inside the try
\* block: an sqlite3 error rolls the update back and goes to the handler
CompleteRun(p) ==
    /\ runs[p].pc = "complete"
    /\ \/ /\ pipeline_runs' = complete_pipeline_run(pipeline_runs, runs[p].run_id,
                                  Some(runs[p].img_id),
                                  "ingest,weather,ndvi,classify,segment", None)
          /\ runs' = [runs EXCEPT ![p].pc = "return", ![p].updates = @ + 1]
       \/ /\ \E m \in Messages : runs' = Raise(p, m)
          /\ UNCHANGED pipeline_runs
    /\ UNCHANGED <<coreVars, segVars, tables>>

\* logger.info(...); return {"status": "completed", ...}
ReturnCompleted(p) ==
    /\ runs[p].pc = "return"
    /\ runs' = Leave(p, CompletedPayload(p))
    /\ UNCHANGED <<coreVars, segVars, pipeline_runs, tables>>

\* except Exception as e: db.complete_pipeline_run(run_id,
\* processing_time=elapsed, error=str(e)); an sqlite3 error here leaves
\* run_pipeline
HandleException(p) ==
    /\ runs[p].pc = "except"
    /\ \/ /\ pipeline_runs' = complete_pipeline_run(pipeline_runs, runs[p].run_id,
                                  None, "", Some(runs[p].e))
          /\ runs' = [runs EXCEPT ![p].pc = "return_failed", ![p].updates = @ + 1]
       \/ /\ runs' = Leave(p, RaisedToCaller)
          /\ UNCHANGED pipeline_runs
    /\ UNCHANGED <<coreVars, segVars, tables>>

\* logger.error(...); return {"status": "failed", "error": str(e), ...}
ReturnFailed(p) ==
    /\ runs[p].pc = "return_failed"
    /\ runs' = Leave(p, FailedPayload(p))
    /\ UNCHANGED <<coreVars, segVars, pipeline_runs, tables>>

----------------------------------------------------------------------------
(* Specifications *)

BandPairs == [nir : BandValues, red : BandValues] \cup BoundaryPairs

RECURSIVE SeqsUpTo(_, _)
\* the non-empty sequences over S of length at most n
SeqsUpTo(S, n) ==
    IF n = 0 THEN {}
    ELSE LET shorter == SeqsUpTo(S, n - 1)
         IN  {<<x>> : x \in S} \cup shorter
               \cup {Append(q, x) : q \in {t \in shorter : Len(t) = n - 1}, x \in S}

Rep(v, k) == [i \in 1..k |-> v]

\* One stand-alone NDVI file per split of its cells among the four classes
\* and no-data: Healthy 0.8, Moderate 0.6, Severe 0.3, Critical 0.1 (the three
\* class boundaries themselves) and the no-data marker.
StandaloneFile(h, m, s, c, n) ==
    Rep(<<4, 5>>, h) \o Rep(NDVI_HEALTHY, m) \o Rep(NDVI_MODERATE, s)
        \o Rep(NDVI_SEVERE, c) \o Rep(NODATA, n)

\* the splits of at most n cells among the four classes
Splits(n) ==
    {t \in (0..n) \X (0..n) \X (0..n) \X (0..n) : t[1] + t[2] + t[3] + t[4] <= n}

\* Larger files whose healthy share lies just beside 70 %: 145 of 207 cells
\* (70.048 %, which rounds to 70.0) and 141 of 201 cells (70.149 %, which
\* rounds to 70.1)
RoundingFiles == {StandaloneFile(145, 62, 0, 0, 0), StandaloneFile(141, 60, 0, 0, 0)}

\* Files without a no-data cell of up to MaxFilePixels cells, and files with
\* 1..MaxNoData no-data cells beside up to MaxMixedPixels valid ones.
StandaloneFiles ==
    {StandaloneFile(sp[1], sp[2], sp[3], sp[4], 0) :
        sp \in {t \in Splits(MaxFilePixels) : t[1] + t[2] + t[3] + t[4] >= 1}}
    \cup {StandaloneFile(sp[1], sp[2], sp[3], sp[4], n) :
            sp \in Splits(MaxMixedPixels), n \in 1..MaxNoData}
    \cup RoundingFiles

InitCommon ==
    /\ ndviResult = NoResult
    /\ weather_data = None
    /\ classification = NoResult
    /\ overall_label = NoResult
    /\ plot_class = NoResult
    /\ seg_call = NoResult
    /\ segmentation = NoResult
    /\ geojson = NoResult
    /\ pipeline_runs = <<>>
    /\ tables = EmptyTables
    /\ runs = [p \in Procs |-> IdleRun]

\* The pipeline: a source image is on disk, the NDVI file is not yet written.
Init ==
    /\ srcBands \in SeqsUpTo(BandPairs, MaxPixels)
    /\ ndviFile = <<>>
    /\ InitCommon

Next == CalculateNdvi \/ ClassifyHealth \/ OverallHealth \/ ClassifyNdvi

Spec == Init /\ [][Next]_vars

\* The classifier on its own: an NDVI file is on disk.
InitClassify ==
    /\ srcBands = <<>>
    /\ ndviFile \in StandaloneFiles
    /\ InitCommon

NextClassify == ClassifyHealth \/ OverallHealth \/ ClassifyNdvi

SpecClassify == InitClassify /\ [][NextClassify]_vars

\* NDVI files given to segment_plots: cells of 0.8 and 0.3 (vegetation) and
\* of 0.1, the vegetation threshold itself (not vegetation)
SegmentFiles == SeqsUpTo({<<4, 5>>, NDVI_MODERATE, NDVI_SEVERE}, MaxSegPixels)

\* The segmenter on its own: an NDVI file is on disk.
InitSegment ==
    /\ srcBands = <<>>
    /\ ndviFile \in SegmentFiles
    /\ InitCommon

NextSegment == SegmentPlots \/ PlotsToGeojson

SpecSegment == InitSegment /\ [][NextSegment]_vars

\* The orchestrator: an empty store and MaxRuns run_pipeline calls, which
\* may overlap (the dashboard's button and the command line both call it).
InitPipeline ==
    /\ srcBands = <<>>
    /\ ndviFile = <<>>
    /\ InitCommon

NextPipeline ==
    \E p \in Procs :
        \/ StartPipelineRun(p)
        \/ Ingest(p)
        \/ FetchWeather(p)
        \/ ComputeNdvi(p)
        \/ ClassifyStep(p)
        \/ SegmentStep(p)
        \/ CompleteRun(p)
        \/ ReturnCompleted(p)
        \/ HandleException(p)
        \/ ReturnFailed(p)

SpecPipeline == InitPipeline /\ [][NextPipeline]_vars

----------------------------------------------------------------------------
(* Properties *)

CalcDone == ndviResult.status = "returned"
Classified == classification.status = "returned"

\* the exact quotient (NIR - Red) / (NIR + Red) of a cell with NIR + Red # 0
Ratio(cell) == Frac(cell.nir - cell.red, cell.nir + cell.red)

\* C1: every cell of the index raster computed by calculate_ndvi lies in
\* the closed range [-1, 1].
C1_IndexInRange ==
    CalcDone =>
        \A i \in 1..Len(ndviFile) :
            RatGe(ndviFile[i], MinusOne) /\ RatLe(ndviFile[i], One)

\* a raster has been computed in which one quotient was above 1 and another
\* below -1, so both sides of the clip acted
C1_Witness ==
    /\ CalcDone
    /\ \E i \in 1..Len(srcBands) :
         srcBands[i].nir + srcBands[i].red > 0 /\ RatGt(Ratio(srcBands[i]), One)
    /\ \E i \in 1..Len(srcBands) :
         srcBands[i].nir + srcBands[i].red > 0 /\ RatLt(Ratio(srcBands[i]), MinusOne)

\* C2: for each cell the (clamped) index equals (NIR - Red) / (NIR + Red)
\* whenever NIR + Red is nonzero, positive or negative, and is the fallback 0
\* when NIR + Red is zero.
C2_RatioWheneverNonzero ==
    CalcDone =>
        \A i \in 1..Len(srcBands) :
            IF srcBands[i].nir + srcBands[i].red # 0
            THEN ndviFile[i] = Clip(Ratio(srcBands[i]))
            ELSE ndviFile[i] = Zero

\* the class intervals of the data model, stated on their own
InHealthy(v) == RatGt(v, NDVI_HEALTHY)
InModerate(v) == RatGt(v, NDVI_MODERATE) /\ ~RatGt(v, NDVI_HEALTHY)
InSevere(v) == RatGt(v, NDVI_SEVERE) /\ ~RatGt(v, NDVI_MODERATE)
InCritical(v) == ~RatGt(v, NDVI_SEVERE)

\* the classes whose mask in classify_health holds for v
MaskClasses(v) ==
    {k \in {"Healthy", "Moderate Stress", "Severe Stress", "Critical"} :
        \/ k = "Healthy" /\ HealthyMask(v)
        \/ k = "Moderate Stress" /\ ModerateMask(v)
        \/ k = "Severe Stress" /\ SevereMask(v)
        \/ k = "Critical" /\ CriticalMask(v)}

\* C3: in every classify_health result each valid cell is in exactly one of
\* the four classes, each count is the number of valid cells in the class's
\* half-open interval, and the four counts add up to the total.
C3_ClassesPartition ==
    Classified =>
        LET valid == Valid(ndviFile)
            pc == classification.pixel_counts
        IN  /\ \A i \in 1..Len(valid) : Cardinality(MaskClasses(valid[i])) = 1
            /\ pc.healthy = Cardinality({i \in 1..Len(valid) : InHealthy(valid[i])})
            /\ pc.moderate_stress = Cardinality({i \in 1..Len(valid) : InModerate(valid[i])})
            /\ pc.severe_stress = Cardinality({i \in 1..Len(valid) : InSevere(valid[i])})
            /\ pc.critical = Cardinality({i \in 1..Len(valid) : InCritical(valid[i])})
            /\ pc.total = Len(valid)
            /\ pc.healthy + pc.moderate_stress + pc.severe_stress + pc.critical = pc.total

\* a file with cells in all four classes, three of them on a class boundary,
\* has been classified
C3_Witness ==
    /\ Classified
    /\ classification.pixel_counts.healthy > 0
    /\ classification.pixel_counts.moderate_stress > 0
    /\ classification.pixel_counts.severe_stress > 0
    /\ classification.pixel_counts.critical > 0
    /\ \E i \in 1..Len(ndviFile) : RatEq(ndviFile[i], NDVI_HEALTHY)
    /\ \E i \in 1..Len(ndviFile) : RatEq(ndviFile[i], NDVI_MODERATE)
    /\ \E i \in 1..Len(ndviFile) : RatEq(ndviFile[i], NDVI_SEVERE)

\* the class the per-pixel masks of calculate_ndvi give v
StatClasses(v) ==
    {k \in {"Healthy", "Moderate Stress", "Severe Stress", "Critical"} :
        \/ k = "Healthy" /\ StatHealthy(v)
        \/ k = "Moderate Stress" /\ StatModerate(v)
        \/ k = "Severe Stress" /\ StatSevere(v)
        \/ k = "Critical" /\ StatCritical(v)}

StatPctSum(st) ==
    RatAdd(RatAdd(st.healthy_pct, st.moderate_stress_pct),
           RatAdd(st.severe_stress_pct, st.critical_pct))

\* C5: with total_pixels > 0 the four class percentages of the statistics
\* of calculate_ndvi add up to 100 within 0.1.
C5_StatPctSum100 ==
    (CalcDone /\ ndviResult.statistics.total_pixels > 0) =>
        /\ RatGe(StatPctSum(ndviResult.statistics), <<999, 10>>)
        /\ RatLe(StatPctSum(ndviResult.statistics), <<1001, 10>>)

\* statistics of a raster with a cell on the Healthy boundary and a cell of
\* another class
C5_Witness ==
    /\ CalcDone
    /\ ndviResult.statistics.total_pixels > 1
    /\ \E i \in 1..Len(ndviFile) : RatEq(ndviFile[i], NDVI_HEALTHY)
    /\ ndviResult.statistics.moderate_stress_pct = <<50, 1>>
    /\ ndviResult.statistics.critical_pct = <<50, 1>>

\* the sum of the four reported percentages, in tenths of a percent
PctSum(pcts) == pcts.healthy + pcts.moderate_stress + pcts.severe_stress + pcts.critical

\* C6 as stated: the four independently rounded percentages of
\* classify_health add up to 100 within 0.1 for every split of the cells.
C6_PctSumWithinTenth ==
    Classified => Abs(PctSum(classification.percentages) - 1000) <= 1

\* C6 (amended): the four independently rounded percentages of
\* classify_health add up to 100 within 0.2.
C6_PctSumWithinTwoTenths ==
    Classified => Abs(PctSum(classification.percentages) - 1000) <= 2

\* a classification whose four percentages are all ties rounded the same
\* way, so that their sum is 0.2 away from 100
C6_Witness ==
    /\ Classified
    /\ Abs(PctSum(classification.percentages) - 1000) = 2

\* C7: the overall label is decided by f = healthy / total alone: No Data
\* for total = 0, else Good for f > 0.7, Fair for 0.5 < f <= 0.7, Poor for
\* 0.3 < f <= 0.5, Critical for f <= 0.3.
C7_LabelByFraction ==
    overall_label.status = "returned" =>
        LET h == overall_label.healthy
            t == overall_label.total
            l == overall_label.label
        IN  /\ l \in {"No Data", "Good", "Fair", "Poor", "Critical"}
            /\ l = "No Data" <=> t = 0
            /\ l = "Good" <=> (t > 0 /\ 10 * h > 7 * t)
            /\ l = "Fair" <=> (t > 0 /\ 10 * h > 5 * t /\ 10 * h <= 7 * t)
            /\ l = "Poor" <=> (t > 0 /\ 10 * h > 3 * t /\ 10 * h <= 5 * t)
            /\ l = "Critical" <=> (t > 0 /\ 10 * h <= 3 * t)

\* _overall_health has been called with a healthy fraction of exactly 0.7
\* and answered Fair
C7_Witness ==
    /\ overall_label.status = "returned"
    /\ overall_label.total > 0
    /\ 10 * overall_label.healthy = 7 * overall_label.total
    /\ overall_label.label = "Fair"

\* C8: on a raster without a valid cell classify_health returns a result
\* (it does not raise) with overall_health "No Data" and four percentages 0.
C8_EmptyRasterNoData ==
    (classification.status # "none" /\ Len(Valid(ndviFile)) = 0) =>
        /\ classification.status = "returned"
        /\ classification.overall_health = "No Data"
        /\ classification.percentages =
             [healthy |-> 0, moderate_stress |-> 0, severe_stress |-> 0, critical |-> 0]

\* C9: the recommendation list classify_health returns is never empty.
C9_RecommendationsNonEmpty ==
    Classified => Len(classification.recommendations) >= 1

HasRec(recs, priority, action) ==
    \E i \in 1..Len(recs) : recs[i] = [priority |-> priority, action |-> action]

\* a classification, with weather, in which none of the four conditions
\* holds and the only recommendation is the fallback
C9_Witness ==
    /\ Classified
    /\ weather_data # None
    /\ classification.percentages.critical <= 150
    /\ classification.percentages.severe_stress <= 250
    /\ classification.percentages.moderate_stress <= 300
    /\ classification.percentages.healthy <= 700
    /\ classification.recommendations =
         <<[priority |-> "MEDIUM", action |-> "Schedule Next Scan"]>>

\* C10: each recommendation is present exactly when its own condition on
\* the reported percentages holds, the fallback exactly when none of the four
\* holds, no recommendation twice; 80/10/5/5 gives Routine Monitoring alone.
C10_RecommendationsIff ==
    Classified =>
        LET p == classification.percentages
            recs == classification.recommendations
        IN  /\ HasRec(recs, "HIGH", "Field Inspection") <=> p.critical > 150
            /\ HasRec(recs, "HIGH", "Soil & Nutrient Test") <=> p.severe_stress > 250
            /\ HasRec(recs, "MEDIUM", "Targeted Treatment") <=> p.moderate_stress > 300
            /\ HasRec(recs, "LOW", "Routine Monitoring") <=> p.healthy > 700
            /\ HasRec(recs, "MEDIUM", "Schedule Next Scan") <=>
                 ~(p.critical > 150 \/ p.severe_stress > 250
                   \/ p.moderate_stress > 300 \/ p.healthy > 700)
            /\ \A i, j \in 1..Len(recs) : recs[i] = recs[j] => i = j
            /\ \A i \in 1..Len(recs) :
                 recs[i] \in {[priority |-> "HIGH", action |-> "Field Inspection"],
                              [priority |-> "HIGH", action |-> "Soil & Nutrient Test"],
                              [priority |-> "MEDIUM", action |-> "Targeted Treatment"],
                              [priority |-> "LOW", action |-> "Routine Monitoring"],
                              [priority |-> "MEDIUM", action |-> "Schedule Next Scan"]}
            /\ (p.healthy = 800 /\ p.moderate_stress = 100
                /\ p.severe_stress = 50 /\ p.critical = 50) =>
                 recs = <<[priority |-> "LOW", action |-> "Routine Monitoring"]>>

\* the 80/10/5/5 classification, with its single recommendation
C10_Witness ==
    /\ Classified
    /\ classification.percentages =
         [healthy |-> 800, moderate_stress |-> 100, severe_stress |-> 50, critical |-> 50]
    /\ classification.recommendations =
         <<[priority |-> "LOW", action |-> "Routine Monitoring"]>>

\* the value the weather argument supplies for a field of a section: None
\* when there is no weather, no such section or no such field
Supplied(section, field) ==
    IF weather_data = None THEN None
    ELSE LET secs == {p \in weather_data[1] : p[1] = section}
         IN  IF secs = {} THEN None
             ELSE LET fs == {q \in (CHOOSE p \in secs : TRUE)[2] : q[1] = field}
                  IN  IF fs = {} THEN None ELSE Some((CHOOSE q \in fs : TRUE)[2])

NoWeather == weather_data \in {None, Some({})}

Drought == [type |-> "CRITICAL", title |-> "Drought Stress Detected"]
Disease == [type |-> "WARNING", title |-> "Disease Risk Elevated"]
Frost == [type |-> "WARNING", title |-> "Frost Damage Risk"]

HasAlert(alerts, alert) == \E i \in 1..Len(alerts) : alerts[i] = alert

\* C11: a classification made without weather context (None, or an empty
\* weather dict) has an empty alerts list, whatever the percentages are.
C11_NoWeatherNoAlerts ==
    (Classified /\ NoWeather) => classification.alerts = <<>>

\* a classification without weather whose percentages (severe + critical
\* above 30, moderate above 20, healthy above 30) would raise alerts in dry,
\* humid or cold weather
C11_Witness ==
    /\ Classified
    /\ weather_data = None
    /\ classification.percentages.severe_stress + classification.percentages.critical > 300
    /\ classification.percentages.moderate_stress > 200
    /\ classification.percentages.healthy > 300
    /\ classification.alerts = <<>>

\* C12: with weather supplied, each alert whose fields the weather carries is
\* present exactly when its condition holds (moisture in hundredths,
\* percentages in tenths), no alert twice, nothing but the three alerts; soil
\* moisture 0.1 with severe 20 % and critical 15 % gives exactly one Drought
\* alert.
C12_AlertsIff ==
    (Classified /\ ~NoWeather) =>
        LET p == classification.percentages
            a == classification.alerts
            moisture == Supplied("soil", "moisture")
            humidity == Supplied("current", "humidity_pct")
            temp == Supplied("current", "temperature_c")
        IN  /\ moisture # None =>
                 (HasAlert(a, Drought) <=>
                    (moisture[1] < 20 /\ p.severe_stress + p.critical > 300))
            /\ (humidity # None /\ temp # None) =>
                 (HasAlert(a, Disease) <=>
                    (humidity[1] > 80 /\ temp[1] > 18 /\ p.moderate_stress > 200))
            /\ temp # None =>
                 (HasAlert(a, Frost) <=> (temp[1] < 2 /\ p.healthy > 300))
            /\ \A i, j \in 1..Len(a) : a[i] = a[j] => i = j
            /\ \A i \in 1..Len(a) : a[i] \in {Drought, Disease, Frost}
            /\ (moisture = Some(10) /\ p.severe_stress = 200 /\ p.critical = 150) =>
                 Cardinality({i \in 1..Len(a) : a[i] = Drought}) = 1

\* soil moisture 0.1, severe 20 %, critical 15 %: the Drought alert, alone
C12_Witness ==
    /\ Classified
    /\ Supplied("soil", "moisture") = Some(10)
    /\ classification.percentages.severe_stress = 200
    /\ classification.percentages.critical = 150
    /\ classification.alerts = <<Drought>>

\* C13: with weather supplied and a raster that has valid cells, the
\* classifier returns, and a missing field raises no alert that depends on
\* it: no Drought without moisture, no Disease without humidity_pct, neither
\* Disease nor Frost without temperature_c.
C13_MissingFieldNoAlert ==
    (classification.status # "none" /\ ~NoWeather /\ Len(Valid(ndviFile)) > 0) =>
        /\ classification.status = "returned"
        /\ Supplied("soil", "moisture") = None =>
             ~HasAlert(classification.alerts, Drought)
        /\ Supplied("current", "humidity_pct") = None =>
             ~HasAlert(classification.alerts, Disease)
        /\ Supplied("current", "temperature_c") = None =>
             /\ ~HasAlert(classification.alerts, Disease)
             /\ ~HasAlert(classification.alerts, Frost)

Segmented == segmentation.status = "returned"

\* C15: every plot segment_plots returns has area_pixels >= min_plot_area
\* and is one of the labeled regions, and every labeled region with area >=
\* min_plot_area is the region of exactly one plot.
C15_PlotsAreLargeRegions ==
    Segmented =>
        LET plots == segmentation.plots
            regions == seg_call.regions
        IN  /\ \A i \in 1..Len(plots) :
                 /\ plots[i].area_pixels >= seg_call.min_plot_area
                 /\ \E k \in 1..Len(regions) :
                      /\ plots[i].id = regions[k].label
                      /\ plots[i].area_pixels = regions[k].area
            /\ \A k \in 1..Len(regions) :
                 regions[k].area >= seg_call.min_plot_area =>
                    Cardinality({i \in 1..Len(plots) :
                                    plots[i].id = regions[k].label}) = 1

\* a segmentation of two regions, the first below min_plot_area and dropped,
\* the second exactly at min_plot_area and returned as the only plot
C15_Witness ==
    /\ Segmented
    /\ Len(seg_call.regions) = 2
    /\ seg_call.regions[1].area < seg_call.min_plot_area
    /\ seg_call.regions[2].area = seg_call.min_plot_area
    /\ Len(segmentation.plots) = 1
    /\ segmentation.plots[1].id = 2

NoRegionLargeEnough ==
    \A k \in 1..Len(seg_call.regions) :
        seg_call.regions[k].area < seg_call.min_plot_area

\* C16: when no labeled region reaches min_plot_area (a raster without a
\* vegetation cell included), segment_plots returns total_plots = 0, an
\* empty plots list and the summary {"total": 0}.
C16_NoPlotsEmptyResult ==
    (seg_call.status = "called" /\ NoRegionLargeEnough) =>
        /\ Segmented
        /\ segmentation.total_plots = 0
        /\ segmentation.plots = <<>>
        /\ segmentation.summary = [total |-> 0]

\* a segmentation with the default min_plot_area of a raster that has
\* vegetation and labeled regions, none of them large enough
C16_Witness ==
    /\ Segmented
    /\ seg_call.min_plot_area = DefaultMinPlotArea
    /\ Len(seg_call.regions) = 2
    /\ NoRegionLargeEnough
    /\ segmentation.total_plots = 0
    /\ segmentation.summary = [total |-> 0]

\* C17: plots_to_geojson leaves the segmentation result as it was and
\* returns one feature per plot, in the order of the plots, the i-th feature
\* carrying the id of the i-th plot.
C17_OneFeaturePerPlot ==
    [][geojson' # geojson =>
          /\ segmentation' = segmentation
          /\ LET plots == segmentation.plots
                 features == geojson'.value.features
             IN  /\ Len(features) = Len(plots)
                 /\ \A i \in 1..Len(plots) :
                      features[i].properties.plot_id = plots[i].id]_vars

\* a feature collection of two features, for the plots 1 and 2 in this order
C17_Witness ==
    /\ geojson.status = "returned"
    /\ Len(segmentation.plots) = 2
    /\ Len(geojson.value.features) = 2
    /\ geojson.value.features[1].properties.plot_id = 1
    /\ geojson.value.features[2].properties.plot_id = 2

\* C18: every feature is a polygon of one ring of 5 points, the first equal
\* to the last, whose first four points are the four distinct corners
\* (west, south), (east, south), (east, north), (west, north) of the plot's
\* bounding box, with exactly the properties plot_id, health_class,
\* health_color, mean_ndvi and area_pixels of the plot.
C18_FeatureIsBoundingBox ==
    geojson.status = "returned" =>
        \A i \in 1..Len(geojson.value.features) :
            LET feature == geojson.value.features[i]
                plot == segmentation.plots[i]
                bbox == plot.bbox_geo
                coords == feature.geometry.coordinates
            IN  /\ feature.geometry.type = "Polygon"
                /\ Len(coords) = 1
                /\ Len(coords[1]) = 5
                /\ coords[1][1] = coords[1][5]
                /\ coords[1][1] = <<bbox.west, bbox.south>>
                /\ coords[1][2] = <<bbox.east, bbox.south>>
                /\ coords[1][3] = <<bbox.east, bbox.north>>
                /\ coords[1][4] = <<bbox.west, bbox.north>>
                /\ Cardinality({coords[1][j] : j \in 1..4}) = 4
                /\ feature.properties =
                     [plot_id |-> plot.id,
                      health_class |-> plot.health_class,
                      health_color |-> plot.health_color,
                      mean_ndvi |-> plot.ndvi_stats.mean,
                      area_pixels |-> plot.area_pixels]

\* a feature for a plot of two cells under the north-up transform: cells 2
\* and 3 of the row, centres of columns 1 and 3 and of rows 1 and 0
C18_Witness ==
    /\ geojson.status = "returned"
    /\ Len(geojson.value.features) = 1
    /\ geojson.value.features[1].properties.area_pixels = 2
    /\ geojson.value.features[1].geometry.coordinates =
         <<<< <<26, 34>>, <<34, 34>>, <<34, 38>>, <<26, 38>>, <<26, 34>> >>>>

\* C20: in every step, each row of pipeline_runs stays in the table; a row
\* whose status is completed or failed keeps its status, a running row stays
\* running or becomes completed or failed, and a new row is running.
C20_StatusOnlyLeavesRunning ==
    [][/\ \A id \in DOMAIN pipeline_runs :
            /\ id \in DOMAIN pipeline_runs'
            /\ pipeline_runs[id].status \in {"completed", "failed"} =>
                 pipeline_runs'[id].status = pipeline_runs[id].status
            /\ pipeline_runs[id].status = "running" =>
                 pipeline_runs'[id].status \in {"running", "completed", "failed"}
       /\ \A id \in DOMAIN pipeline_runs' \ DOMAIN pipeline_runs :
            pipeline_runs'[id].status = "running"]_vars

\* two calls have returned, the first started one failed and the other one
\* completed after it: the store holds a failed and a completed row
C20_Witness ==
    /\ Len(pipeline_runs) = 2
    /\ pipeline_runs[1].status = "failed"
    /\ pipeline_runs[2].status = "completed"
    /\ runs[1].result.status = "failed"
    /\ runs[2].result.status = "completed"

\* C28: a classification has overall_health "Good" exactly when its
\* recommendations include LOW "Routine Monitoring".
C28_GoodIffRoutineMonitoring ==
    Classified =>
        (classification.overall_health = "Good"
            <=> HasRec(classification.recommendations, "LOW", "Routine Monitoring"))

\* C29: no alerts list holds both the Disease and the Frost alert; it has at
\* most two entries, each alert at most once, in the order Drought, Disease,
\* Frost.
C29_DiseaseExcludesFrost ==
    Classified =>
        LET a == classification.alerts
            Rank(x) == IF x = Drought THEN 1 ELSE IF x = Disease THEN 2 ELSE 3
        IN  /\ ~(HasAlert(a, Disease) /\ HasAlert(a, Frost))
            /\ Len(a) <= 2
            /\ \A i, j \in 1..Len(a) : i < j => Rank(a[i]) < Rank(a[j])

\* a classification with warm humid weather whose percentages satisfy the
\* percentage conditions of all three alerts (severe + critical > 30,
\* moderate > 20, healthy > 30): Drought and Disease, in this order, no Frost
C29_Witness ==
    /\ Classified
    /\ classification.percentages.severe_stress + classification.percentages.critical > 300
    /\ classification.percentages.moderate_stress > 200
    /\ classification.percentages.healthy > 300
    /\ classification.alerts = <<Drought, Disease>>

\* The steps of a run, in the order of run_pipeline
Steps == <<"imagery", "weather", "ndvi", "render", "classify", "segment",
           "geojson", "persist">>

IsPrefix(s, t) == Len(s) <= Len(t) /\ s = SubSeq(t, 1, Len(s))

\* the call p takes a step
Acts(p) == runs'[p] # runs[p]

\* the row of the run the call p started
RunRow(p) == pipeline_runs[runs[p].run_id]

\* C21: once a step of a started run has raised, the call executes no
\* further step, writes nothing but its own run row, and ends by returning
\* the payload {"status": "failed", "error": message, "run_id": id}; it
\* never ends by an exception.
C21_FailureReturnsPayload ==
    [][\A p \in Procs :
         /\ (runs[p].pc = "except" /\ Acts(p)) =>
                /\ runs'[p].pc = "return_failed"
                /\ runs'[p].e = runs[p].e
                /\ tables' = tables
         /\ (runs[p].pc = "return_failed" /\ Acts(p)) =>
                /\ runs'[p].pc = "done"
                /\ runs'[p].result = [status |-> "failed", error |-> runs[p].e,
                                      run_id |-> runs[p].run_id]
                /\ tables' = tables]_vars

\* C22: a call that returned a payload with status "failed" has its run row
\* stored with status "failed", the elapsed time and the error message of
\* the payload; its row is never "completed".
C22_FailedRunStoredFailed ==
    \A p \in Procs :
        runs[p].result.status = "failed" =>
            /\ RunRow(p).status = "failed"
            /\ RunRow(p).processing_time_s = Some("elapsed")
            /\ RunRow(p).error_message = Some(runs[p].result.error)

\* C23: a call of run_pipeline that started a run and has ended has left
\* its run row in status "completed" or "failed", never in "running".
C23_EndedRunNotRunning ==
    \A p \in Procs :
        (runs[p].pc = "done" /\ runs[p].run_id # 0) =>
            RunRow(p).status \in {"completed", "failed"}

\* C24: the steps a run has completed are an initial part of Steps (fixed
\* order, none twice, none before its predecessor succeeded); the
\* classification is computed from the weather acquired by the same run;
\* and a run row is set to "completed" only by a run that has completed
\* every step, the writing of plots.geojson included.
C24_StepsInOrder ==
    [][\A p \in Procs :
         /\ IsPrefix(runs'[p].trace, Steps)
         /\ (Acts(p) /\ runs'[p].trace # <<>>) =>
                /\ IsPrefix(runs[p].trace, runs'[p].trace)
         /\ (runs[p].pc = "classify" /\ runs'[p].pc = "segment") =>
                /\ runs[p].weather = runs[p].run_id
                /\ runs'[p].classification = runs[p].run_id
         /\ (runs[p].run_id # 0 /\ RunRow(p).status = "running"
               /\ pipeline_runs'[runs[p].run_id].status = "completed") =>
                /\ runs[p].trace = Steps
                /\ tables.plots_geojson # 0]_vars

\* the rows of t are all still in u, at their ids and unchanged
Kept(t, u) == Len(t) <= Len(u) /\ \A i \in 1..Len(t) : u[i] = t[i]

\* C25: no step, failing or not, and no handling of a failure removes or
\* changes a row of the imagery, weather, index or health assessment table
\* or an index raster: what the steps before the failing one wrote is
\* there after the run is marked failed.
C25_NoRollback ==
    [][/\ Kept(tables.imagery, tables'.imagery)
       /\ Kept(tables.weather_data, tables'.weather_data)
       /\ Kept(tables.ndvi_results, tables'.ndvi_results)
       /\ Kept(tables.health_assessments, tables'.health_assessments)
       /\ tables.rasters \subseteq tables'.rasters
       /\ \A p \in Procs :
            (Acts(p) /\ runs[p].pc \in {"except", "return_failed"}) => tables' = tables]_vars

\* the only run there is failed in the segmentation step: it is marked
\* failed and its imagery, weather, index and health rows and its index
\* raster are in the store
C25_Witness ==
    /\ Len(pipeline_runs) = 1
    /\ pipeline_runs[1].status = "failed"
    /\ runs[1].result.status = "failed"
    /\ Len(tables.imagery) = 1
    /\ Len(tables.weather_data) = 1
    /\ tables.ndvi_results = <<[imagery_id |-> 1]>>
    /\ tables.health_assessments = <<[ndvi_result_id |-> 1]>>
    /\ tables.rasters = {1}

ResultFields == {"processing_time_s", "ndvi_mean", "overall_health",
                 "plots_found", "alerts"}

\* C26: a returned payload with status "completed" has the five result
\* fields, each computed by the run itself, and its run is stored as
\* completed; a payload with status "failed" has the fields status, error
\* and run_id and no other.
C26_ResultFieldsIffCompleted ==
    \A p \in Procs :
        LET r == runs[p].result
        IN  /\ r.status = "completed" =>
                 /\ DOMAIN r = {"status", "run_id"} \cup ResultFields
                 /\ r.processing_time_s = "elapsed"
                 /\ r.ndvi_mean = r.run_id
                 /\ r.overall_health = r.run_id
                 /\ r.plots_found = r.run_id
                 /\ r.alerts = r.run_id
                 /\ pipeline_runs[r.run_id].status = "completed"
            /\ r.status = "failed" =>
                 /\ DOMAIN r = {"status", "error", "run_id"}
                 /\ DOMAIN r \cap ResultFields = {}

\* one call returned the failure payload and the other the result payload
C26_Witness ==
    /\ runs[1].result = [status |-> "failed", error |-> "read error", run_id |-> 1]
    /\ runs[2].result.status = "completed"
    /\ runs[2].result.plots_found = 2

\* C27: a step inserts at most one run row, the ids of the runs of
\* different calls differ, a run row is changed only by a step of the call
\* that started it, and a call that ends has updated its row exactly once.
C27_OneRowOneUpdate ==
    [][/\ Len(pipeline_runs') \in {Len(pipeline_runs), Len(pipeline_runs) + 1}
       /\ \A p, q \in Procs :
            (p # q /\ runs'[p].run_id # 0) => runs'[p].run_id # runs'[q].run_id
       /\ \A id \in DOMAIN pipeline_runs :
            pipeline_runs'[id] # pipeline_runs[id] =>
                \E p \in Procs : runs[p].run_id = id /\ Acts(p)
       /\ \A p \in Procs :
            (runs'[p].pc = "done" /\ runs'[p].run_id # 0) => runs'[p].updates = 1]_vars

\* C30: for the run store of every reachable state, get_pipeline_stats
\* reports completed + failed = total_runs and a failed figure equal to
\* the number of rows with status "failed".
C30_FailedFigureCountsFailedRows ==
    LET stats == get_pipeline_stats(pipeline_runs)
    IN  /\ stats.completed + stats.failed = stats.total_runs
        /\ stats.failed = CountStatus(pipeline_runs, "failed")

====
